---------------------------- MODULE Spec2Model ----------------------------
(***************************************************************************)
(* State-machine model of the two Streamlit programs of the repository:    *)
(*   src/sector_performance.py   (app = "sector", analyze_sectors)         *)
(*   src/sector_performance1.py  (app = "style",  analyze_styles)          *)
(* Strings are sequences of one-character strings, so that strip, upper,   *)
(* capitalize, split and isspace are computed character by character.      *)
(* Returns are exact rationals (floating-point rounding is not modelled),  *)
(* extended with "inf" (x/0, x > 0) and "nan" (0/0) as numpy produces them.*)
(***************************************************************************)
EXTENDS Integers, Sequences, FiniteSets, TLC

VARIABLES
    app,             \* which of the two programs runs
    upload_option,   \* sidebar radio
    uploaded_file,   \* sidebar file_uploader: NoFile or a parsed table
    manual_tickers,  \* sidebar text_area
    timeframes,      \* sidebar multiselect, in selection order
    pc,              \* position of the script: "idle", "loop", "done"
    tickers,         \* instruments handed to the analysis loop
    pos,             \* 1-based position of the loop in tickers
    results,         \* the list `results` of analyze_sectors / analyze_styles
    results_df,      \* NoTable or the per-instrument table
    group_avg,       \* NoTable or sector_avg / style_avg
    highlights,      \* window -> best/worst group shown by st.metric
    avg_error,       \* the except of the averages block was taken
    export,          \* sheets written to the download, {} when none
    outcome,         \* message that ended the request
    cache,           \* st.cache_data store of get_sector_info / get_company_name
    now,             \* wall clock, in units of 1800 seconds
    metaCalls,       \* this request: positions whose metadata was looked up
    priceCalls,      \* this request: <<position, window>> pairs downloaded
    lastData,        \* provider responses of the instrument processed last
    lastLookup       \* history of the last metadata lookup of each symbol

vars == <<app, upload_option, uploaded_file, manual_tickers, timeframes, pc,
          tickers, pos, results, results_df, group_avg, highlights, avg_error,
          export,
          outcome, cache, now, metaCalls, priceCalls, lastData, lastLookup>>

inputVars == <<app, upload_option, uploaded_file, manual_tickers, timeframes>>

-----------------------------------------------------------------------------
(* Python str methods, character by character.                             *)

LowerCase ==
    <<"a","b","c","d","e","f","g","h","i","j","k","l","m",
      "n","o","p","q","r","s","t","u","v","w","x","y","z">>

UpperCase ==
    <<"A","B","C","D","E","F","G","H","I","J","K","L","M",
      "N","O","P","Q","R","S","T","U","V","W","X","Y","Z">>

Whitespace == {" ", "\n", "\t"}

upperChar(c) ==
    IF \E k \in 1..Len(LowerCase) : LowerCase[k] = c
    THEN UpperCase[CHOOSE k \in 1..Len(LowerCase) : LowerCase[k] = c]
    ELSE c

lowerChar(c) ==
    IF \E k \in 1..Len(UpperCase) : UpperCase[k] = c
    THEN LowerCase[CHOOSE k \in 1..Len(UpperCase) : UpperCase[k] = c]
    ELSE c

\* str.upper()
upper(s) == [k \in 1..Len(s) |-> upperChar(s[k])]

\* str.lower()
lower(s) == [k \in 1..Len(s) |-> lowerChar(s[k])]

\* str.capitalize(): first character upper-cased, the rest lower-cased
capitalize(s) ==
    [k \in 1..Len(s) |-> IF k = 1 THEN upperChar(s[k]) ELSE lowerChar(s[k])]

\* str.isspace(): non-empty and made of whitespace only
isspace(s) == Len(s) > 0 /\ \A k \in 1..Len(s) : s[k] \in Whitespace

\* str.strip(): leading and trailing whitespace removed
strip(s) ==
    LET keep == {k \in 1..Len(s) : s[k] \notin Whitespace}
    IN  IF keep = {} THEN <<>>
        ELSE LET lo == CHOOSE k \in keep : \A j \in keep : k <= j
                 hi == CHOOSE k \in keep : \A j \in keep : k >= j
             IN  SubSeq(s, lo, hi)

\* sub in s
contains(s, sub) ==
    \E k \in 0..(Len(s) - Len(sub)) : SubSeq(s, k + 1, k + Len(sub)) = sub

\* c in s, for a single character
hasChar(s, c) == \E k \in 1..Len(s) : s[k] = c

RECURSIVE split(_, _)
\* str.split(sep) for a one-character separator: "" splits to [""]
split(s, sep) ==
    IF ~hasChar(s, sep) THEN <<s>>
    ELSE LET k == CHOOSE j \in 1..Len(s) :
                      s[j] = sep /\ \A h \in 1..(j - 1) : s[h] # sep
         IN  <<SubSeq(s, 1, k - 1)>> \o split(SubSeq(s, k + 1, Len(s)), sep)

RECURSIVE uniqueFrom(_, _)
uniqueFrom(s, k) ==
    IF k > Len(s) THEN <<>>
    ELSE (IF \A j \in 1..(k - 1) : s[j] # s[k] THEN <<s[k]>> ELSE <<>>)
         \o uniqueFrom(s, k + 1)

\* pandas Series.unique(): first occurrences, in order
unique(s) == uniqueFrom(s, 1)

Range(s) == {s[k] : k \in 1..Len(s)}

-----------------------------------------------------------------------------
(* Tables read by pd.read_csv / pd.read_excel.  A cell is a string, a      *)
(* number (kept with its str() form) or NaN.                               *)

StrCell(s) == [t |-> "str", v |-> s]
NumCell(s) == [t |-> "num", v |-> s]
NaN == [t |-> "nan", v |-> <<>>]

NoFile == [present |-> FALSE, columns |-> <<>>, rows |-> <<>>]
NoTable == [present |-> FALSE, rows |-> <<>>]
Table(rows) == [present |-> TRUE, rows |-> rows]

\* df[name]: the cells of a column, with the row labels 0..n-1 of the file
Column(df, c) == [k \in 1..Len(df.rows) |-> df.rows[k][c]]

ColumnIndex(df, name) == CHOOSE c \in 1..Len(df.columns) : df.columns[c] = name

\* Series.astype(str)
astype_str(cell) == cell.v

\* the .str accessor raises AttributeError on a column that holds no string:
\* read_csv / read_excel give such a column a numeric dtype (an empty
\* table keeps dtype object)
StrAccessorRaises(df, c) ==
    /\ Len(df.rows) > 0
    /\ \A k \in 1..Len(df.rows) : df.rows[k][c].t # "str"

\* Series.str.capitalize() on one cell: a non-string gives NaN
str_capitalize(cell) == IF cell.t = "str" THEN StrCell(capitalize(cell.v)) ELSE NaN

-----------------------------------------------------------------------------
(* The instruments handed to the analysis loop.  idx is the row label the  *)
(* loop sees: enumerate() position (sector), DataFrame index (style).      *)

Inst(idx, sym, style) == [idx |-> idx, Symbol |-> sym, Style |-> style]

NoStyle == StrCell(<<>>)

sTicker == <<"t","i","c","k","e","r">>
sSymbolLower == <<"s","y","m","b","o","l">>
sSymbol == <<"S","y","m","b","o","l">>
sStyle == <<"S","t","y","l","e">>
sGrowth == <<"G","r","o","w","t","h">>
sValue == <<"V","a","l","u","e">>

RECURSIVE FilterSeq(_, _)
\* [x for x in s if x in Keep]
FilterSeq(s, Keep) ==
    IF s = <<>> THEN <<>>
    ELSE (IF Head(s) \in Keep THEN <<Head(s)>> ELSE <<>>) \o FilterSeq(Tail(s), Keep)

\* sector_performance.py 125: the columns whose header mentions ticker/symbol
ticker_columns(df) ==
    FilterSeq([c \in 1..Len(df.columns) |-> c],
              {c \in 1..Len(df.columns) :
                  \/ contains(lower(df.columns[c]), sTicker)
                  \/ contains(lower(df.columns[c]), sSymbolLower)})

\* Series.dropna() of one column
dropna(col) == FilterSeq(col, {col[k] : k \in {j \in 1..Len(col) : col[j].t # "nan"}})

\* sector_performance.py 119-132: an uploaded file; a table without any
\* column makes df.iloc[:, 0] raise, which the except turns into []
SectorUploadTickers(df) ==
    IF Len(df.columns) = 0 THEN <<>>
    ELSE LET c == IF ticker_columns(df) # <<>> THEN ticker_columns(df)[1] ELSE 1
             col == dropna(Column(df, c))
         IN  unique([k \in 1..Len(col) |-> upper(astype_str(col[k]))])

\* sector_performance.py 134-137: the text area
SectorManualTickers(text) ==
    IF hasChar(text, ",")
    THEN LET parts == split(text, ",")
         IN  [k \in 1..Len(parts) |-> upper(strip(parts[k]))]
    ELSE LET parts == split(text, "\n")
             kept == FilterSeq(parts, {p \in Range(parts) : strip(p) # <<>>})
         IN  [k \in 1..Len(kept) |-> upper(strip(kept[k]))]

\* sector_performance.py 141: the blank filter
NonBlank(list) == FilterSeq(list, {t \in Range(list) : t # <<>> /\ ~isspace(t)})

\* sector_performance.py 118-141
ResolveSector(option, file, text) ==
    LET raw == IF option = "Upload" /\ file.present THEN SectorUploadTickers(file)
               ELSE IF option = "Manual" /\ text # <<>> THEN SectorManualTickers(text)
               ELSE <<>>
        list == NonBlank(raw)
    IN  [k \in 1..Len(list) |-> Inst(k - 1, list[k], NoStyle)]

\* sector_performance1.py 130 / 139: the accepted style labels
StyleAccepted(label) == label \in {sGrowth, sValue}

\* sector_performance1.py 126
HasStyleColumns(df) == sSymbol \in Range(df.columns) /\ sStyle \in Range(df.columns)

\* sector_performance1.py 127-128: df[['Symbol','Style']].dropna() with the
\* Symbol column upper-cased; the rows keep their labels of the file
StyleUploadRows(df) ==
    LET cs == ColumnIndex(df, sSymbol)
        ct == ColumnIndex(df, sStyle)
        all == [k \in 1..Len(df.rows) |->
                   Inst(k - 1, upper(astype_str(df.rows[k][cs])), df.rows[k][ct])]
    IN  FilterSeq(all, {all[k] : k \in {j \in 1..Len(df.rows) :
                            df.rows[j][cs].t # "nan" /\ df.rows[j][ct].t # "nan"}})

\* sector_performance1.py 129-130: capitalize the labels, keep Growth/Value
StyleFilter(rows) ==
    LET cap == [k \in 1..Len(rows) |->
                   Inst(rows[k].idx, rows[k].Symbol, str_capitalize(rows[k].Style))]
    IN  FilterSeq(cap, {r \in Range(cap) : r.Style.t = "str" /\ StyleAccepted(r.Style.v)})

\* sector_performance1.py 119-134: an uploaded file.  When .str raises at
\* line 129 the except at 133 leaves symbols_df as lines 127-128 set it.
StyleUploadSymbols(df) ==
    IF ~HasStyleColumns(df) THEN <<>>
    ELSE IF StrAccessorRaises(df, ColumnIndex(df, sStyle)) THEN StyleUploadRows(df)
    ELSE StyleFilter(StyleUploadRows(df))

RECURSIVE StyleManualList(_)
\* sector_performance1.py 136-140: one dict per accepted line
StyleManualList(lines) ==
    IF lines = <<>> THEN <<>>
    ELSE LET fields == split(Head(lines), ",")
             parts == [k \in 1..Len(fields) |-> strip(fields[k])]
         IN  (IF Len(parts) = 2 /\ StyleAccepted(capitalize(parts[2]))
              THEN <<[Symbol |-> upper(parts[1]), Style |-> StrCell(capitalize(parts[2]))]>>
              ELSE <<>>)
             \o StyleManualList(Tail(lines))

\* sector_performance1.py 135-142: pd.DataFrame(manual_list) labels rows 0..n-1
StyleManualSymbols(text) ==
    LET list == StyleManualList(split(strip(text), "\n"))
    IN  [k \in 1..Len(list) |-> Inst(k - 1, list[k].Symbol, list[k].Style)]

\* sector_performance1.py 118-142
ResolveStyle(option, file, text) ==
    IF option = "Upload" /\ file.present THEN StyleUploadSymbols(file)
    ELSE IF option = "Manual" /\ text # <<>> THEN StyleManualSymbols(text)
    ELSE <<>>

Resolve(a, option, file, text) ==
    IF a = "sector" THEN ResolveSector(option, file, text)
    ELSE ResolveStyle(option, file, text)

-----------------------------------------------------------------------------
(* Numbers: exact rationals n/d (d > 0, reduced), +inf and nan.            *)

RECURSIVE GCD(_, _)
GCD(a, b) == IF b = 0 THEN a ELSE GCD(b, a % b)

Abs(x) == IF x < 0 THEN -x ELSE x

Num(n, d) ==
    LET g == GCD(Abs(n), d)
    IN  [k |-> "num", n |-> n \div g, d |-> d \div g]

Inf == [k |-> "inf", n |-> 0, d |-> 1]
NaNf == [k |-> "nan", n |-> 0, d |-> 1]

\* pd.isna
isna(x) == x.k = "nan"

\* x + y in IEEE arithmetic (no -inf arises: closing prices are >= 0)
Plus(x, y) ==
    IF x.k = "nan" \/ y.k = "nan" THEN NaNf
    ELSE IF x.k = "inf" \/ y.k = "inf" THEN Inf
    ELSE Num(x.n * y.d + y.n * x.d, x.d * y.d)

\* x / c for an integer count c > 0
DivInt(x, c) == IF x.k = "num" THEN Num(x.n, x.d * c) ELSE x

\* x < y, for non-nan x and y
Less(x, y) ==
    IF x.k = "inf" THEN FALSE
    ELSE IF y.k = "inf" THEN TRUE
    ELSE x.n * y.d < y.n * x.d

-----------------------------------------------------------------------------
(* The Market Data Provider (yfinance).                                    *)

\* a price download: it raises, or gives the closing prices of the window
Raises == [ok |-> FALSE, close |-> <<>>]
Closes(c) == [ok |-> TRUE, close |-> c]

\* sector_performance.py 63-72, sector_performance1.py 57-65:
\* (end_price - start_price) / start_price * 100 on numpy floats, where
\* x / 0 is inf for x > 0 and nan for x = 0, and no exception
calculate_returns(data) ==
    IF ~data.ok THEN NaNf
    ELSE IF Len(data.close) > 0
    THEN LET start_price == data.close[1]
             end_price == data.close[Len(data.close)]
         IN  IF start_price # 0 THEN Num((end_price - start_price) * 100, start_price)
             ELSE IF end_price - start_price = 0 THEN NaNf
             ELSE Inf
    ELSE NaNf

\* a metadata request: Ticker(...).info raises, or is a dict
InfoRaises == [ok |-> FALSE, info |-> <<>>]
Info(d) == [ok |-> TRUE, info |-> d]

\* dict.get(key, default); info is a sequence of <<key, value>> pairs
get(info, key, default) ==
    IF \E k \in 1..Len(info) : info[k][1] = key
    THEN info[CHOOSE k \in 1..Len(info) : info[k][1] = key][2]
    ELSE default

sUnknown == <<"U","n","k","n","o","w","n">>

\* sector_performance.py 46-57: the body of get_sector_info
get_sector_info(ticker, resp) ==
    IF resp.ok
    THEN [sector |-> get(resp.info, "sector", StrCell(sUnknown)),
          industry |-> get(resp.info, "industry", StrCell(sUnknown)),
          company |-> get(resp.info, "longName", StrCell(ticker))]
    ELSE [sector |-> StrCell(sUnknown), industry |-> StrCell(sUnknown),
          company |-> StrCell(ticker)]

\* sector_performance1.py 46-52: the body of get_company_name
get_company_name(symbol, resp) ==
    IF resp.ok
    THEN [sector |-> NoStyle, industry |-> NoStyle,
          company |-> get(resp.info, "longName", StrCell(symbol))]
    ELSE [sector |-> NoStyle, industry |-> NoStyle, company |-> StrCell(symbol)]

MetaBody(a, symbol, resp) ==
    IF a = "sector" THEN get_sector_info(symbol, resp) ELSE get_company_name(symbol, resp)

-----------------------------------------------------------------------------
(* @st.cache_data(ttl=3600): entries keyed by the argument, valid while    *)
(* their age is below the ttl.                                             *)

\* ttl=3600 seconds, in clock units of 1800 seconds
TTL == 2

CacheValidNoExpiry(c, key, t) == key \in DOMAIN c

\* the entry of key is present and not expired at time t
CacheValid(c, key, t) == key \in DOMAIN c /\ t - c[key].stored < TTL

\* a cached call: the stored value on a hit, else the body's value, stored
CachedValue(c, key, t, fresh) == IF CacheValid(c, key, t) THEN c[key].value ELSE fresh

CacheAfter(c, key, t, fresh) ==
    IF CacheValid(c, key, t) THEN c
    ELSE [k \in DOMAIN c \cup {key} |->
             IF k = key THEN [value |-> fresh, stored |-> t] ELSE c[k]]

-----------------------------------------------------------------------------
(* Aggregation: results_df.groupby(group)[numeric_cols].mean().reset_index()*)
(* and the best / worst group of each window.                              *)

\* results_df[w] of one row: NaN where the row's dict has no key w
Cell(row, w) == IF w \in DOMAIN row.returns THEN row.returns[w] ELSE NaNf

\* [tf for tf in timeframes if tf in results_df.columns]
numeric_cols(tfs, rows) ==
    FilterSeq(tfs, {w \in Range(tfs) : \E r \in Range(rows) : w \in DOMAIN r.returns})

Ascii ==
    <<"\t", "\n", " ", ",", "0","1","2","3","4","5","6","7","8","9">>
    \o UpperCase \o LowerCase

CharRank(c) == CHOOSE k \in 1..Len(Ascii) : Ascii[k] = c

RECURSIVE StrLeq(_, _)
\* a <= b for Python strings
StrLeq(a, b) ==
    IF a = <<>> THEN TRUE
    ELSE IF b = <<>> THEN FALSE
    ELSE IF Head(a) = Head(b) THEN StrLeq(Tail(a), Tail(b))
    ELSE CharRank(Head(a)) < CharRank(Head(b))

RECURSIVE SortedKeys(_)
\* groupby(sort=True): the group keys in ascending order
SortedKeys(S) ==
    IF S = {} THEN <<>>
    ELSE LET m == CHOOSE x \in S : \A y \in S : StrLeq(x.v, y.v)
         IN  <<m>> \o SortedKeys(S \ {m})

\* groupby(dropna=True): None / NaN keys form no group
GroupKeys(rows) == SortedKeys({r.Group : r \in Range(rows)} \ {NaN})

RECURSIVE SumSeq(_)
SumSeq(vals) == IF vals = <<>> THEN Num(0, 1) ELSE Plus(Head(vals), SumSeq(Tail(vals)))

RECURSIVE GroupValuesFillZero(_, _, _)
GroupValuesFillZero(rows, g, w) ==
    IF rows = <<>> THEN <<>>
    ELSE (IF Head(rows).Group = g
          THEN <<IF isna(Cell(Head(rows), w)) THEN Num(0, 1) ELSE Cell(Head(rows), w)>>
          ELSE <<>>)
         \o GroupValuesFillZero(Tail(rows), g, w)

RECURSIVE GroupValues(_, _, _)
\* the non-NaN values of column w among the rows of group g, in row order
GroupValues(rows, g, w) ==
    IF rows = <<>> THEN <<>>
    ELSE (IF Head(rows).Group = g /\ ~isna(Cell(Head(rows), w))
          THEN <<Cell(Head(rows), w)>> ELSE <<>>)
         \o GroupValues(Tail(rows), g, w)

\* Series.mean() with skipna: NaN for no value
mean(vals) == IF vals = <<>> THEN NaNf ELSE DivInt(SumSeq(vals), Len(vals))

\* sector_performance.py 170-171, sector_performance1.py 167-168
GroupAverages(tfs, rows) ==
    LET cols == numeric_cols(tfs, rows)
        keys == GroupKeys(rows)
    IN  [present |-> TRUE,
         cols |-> cols,
         rows |-> [k \in 1..Len(keys) |->
                     [Group |-> keys[k],
                      avg |-> [w \in Range(cols) |-> mean(GroupValues(rows, keys[k], w))]]]]

NoAverages == [present |-> FALSE, cols |-> <<>>, rows |-> <<>>]

idxmaxLast(avgRows, w) ==
    CHOOSE k \in 1..Len(avgRows) :
        /\ ~isna(avgRows[k].avg[w])
        /\ \A j \in 1..Len(avgRows) : ~isna(avgRows[j].avg[w]) =>
              /\ ~Less(avgRows[k].avg[w], avgRows[j].avg[w])
              /\ (j > k => Less(avgRows[j].avg[w], avgRows[k].avg[w]))

\* Series.idxmax(): the first position holding the largest non-NaN value
idxmax(avgRows, w) ==
    CHOOSE k \in 1..Len(avgRows) :
        /\ ~isna(avgRows[k].avg[w])
        /\ \A j \in 1..Len(avgRows) : ~isna(avgRows[j].avg[w]) =>
              /\ ~Less(avgRows[k].avg[w], avgRows[j].avg[w])
              /\ (j < k => Less(avgRows[j].avg[w], avgRows[k].avg[w]))

\* Series.idxmin(): the first position holding the smallest non-NaN value
idxmin(avgRows, w) ==
    CHOOSE k \in 1..Len(avgRows) :
        /\ ~isna(avgRows[k].avg[w])
        /\ \A j \in 1..Len(avgRows) : ~isna(avgRows[j].avg[w]) =>
              /\ ~Less(avgRows[j].avg[w], avgRows[k].avg[w])
              /\ (j < k => Less(avgRows[k].avg[w], avgRows[j].avg[w]))

\* idxmax / idxmin raise on a column that holds NaN only
AllNaN(avgRows, w) == \A k \in 1..Len(avgRows) : isna(avgRows[k].avg[w])

RECURSIVE HighlightCols(_, _)
\* sector_performance.py 200-214: the windows whose metrics are shown before
\* an exception, if any, ends the loop
HighlightCols(avgRows, cols) ==
    IF cols = <<>> \/ AllNaN(avgRows, Head(cols)) THEN <<>>
    ELSE <<Head(cols)>> \o HighlightCols(avgRows, Tail(cols))

\* sector_performance.py 173-214, sector_performance1.py 169-203
Highlights(avg) ==
    IF avg.rows = <<>> THEN <<>>
    ELSE [w \in Range(HighlightCols(avg.rows, avg.cols)) |->
             [best |-> avg.rows[idxmax(avg.rows, w)].Group,
              worst |-> avg.rows[idxmin(avg.rows, w)].Group]]

\* sector_performance.py 215: the averages block ended in its except
AveragesRaise(avg) ==
    avg.rows # <<>> /\ HighlightCols(avg.rows, avg.cols) # avg.cols

-----------------------------------------------------------------------------
(* The script.  A button press runs the resolver and the validity check;   *)
(* each loop iteration of analyze_sectors / analyze_styles is one step;    *)
(* the averages, highlights and download are the last step.                *)

NoCall == 0 - 1

\* st.progress(value) raises StreamlitAPIException unless 0 <= value <= 1;
\* the value is (i + 1) / total with i the row label
ProgressRaises(inst, total) == inst.idx + 1 > total

ReturnsOfKeepsNaN(tfs, data) == [w \in Range(tfs) |-> calculate_returns(data[w])]

\* the returns dict of one instrument: the windows whose return is not NaN
ReturnsOf(tfs, data) ==
    [w \in {x \in Range(tfs) : ~isna(calculate_returns(data[x]))} |->
        calculate_returns(data[w])]

\* sector_performance.py 99-105, sector_performance1.py 101-106
Row(inst, a, meta, returns) ==
    [Ticker |-> inst.Symbol,
     Company |-> meta.company,
     Group |-> IF a = "sector" THEN meta.sector ELSE inst.Style,
     Industry |-> meta.industry,
     returns |-> returns]

\* history of the metadata lookups of one symbol
LookupRecord(old, key, c, t, fresh) ==
    IF CacheValid(c, key, t)
    THEN [time |-> t, called |-> FALSE, value |-> c[key].value,
          callTime |-> old.callTime, callValue |-> old.callValue,
          prevCallTime |-> old.prevCallTime]
    ELSE [time |-> t, called |-> TRUE, value |-> fresh,
          callTime |-> t, callValue |-> fresh, prevCallTime |-> old.callTime]

NoLookup ==
    [time |-> NoCall, called |-> FALSE, value |-> <<>>,
     callTime |-> NoCall, callValue |-> <<>>, prevCallTime |-> NoCall]

LookupOf(h, key) == IF key \in DOMAIN h THEN h[key] ELSE NoLookup

ValidityCheckIgnoresTimeframes(list, tfs) ==
    IF list = <<>> THEN "warning: provide valid symbols" ELSE "running"

\* sector_performance.py 143-147, sector_performance1.py 144-148
ValidityCheck(list, tfs) ==
    IF list = <<>> THEN "warning: provide valid symbols"
    ELSE IF tfs = <<>> THEN "warning: select a timeframe"
    ELSE "running"

\* the button is pressed: lines 116-149 (sector), 115-150 (style)
StartRun ==
    LET list == Resolve(app, upload_option, uploaded_file, manual_tickers)
    IN  /\ tickers' = list
        /\ pos' = 1
        /\ results' = <<>>
        /\ results_df' = NoTable
        /\ group_avg' = NoAverages
        /\ highlights' = <<>>
        /\ avg_error' = FALSE
        /\ export' = {}
        /\ metaCalls' = {}
        /\ priceCalls' = {}
        /\ lastData' = <<>>
        /\ outcome' = ValidityCheck(list, timeframes)
        /\ pc' = IF ValidityCheck(list, timeframes) = "running" THEN "loop" ELSE "done"
        /\ UNCHANGED <<inputVars, cache, now, lastLookup>>

\* the first press of the button
Analyze == pc = "idle" /\ StartRun

\* a later press: the script runs again from its first line
Reanalyze == pc = "done" /\ StartRun

\* one iteration of the loop at sector_performance.py 86-105 /
\* sector_performance1.py 87-106, given the provider's responses
ProcessInstrument(resp, data) ==
    /\ pc = "loop"
    /\ pos <= Len(tickers)
    /\ LET inst == tickers[pos]
           key == inst.Symbol
       IN  IF app = "style" /\ ProgressRaises(inst, Len(tickers))
           THEN \* the exception leaves analyze_styles; line 222 reports it
                /\ pc' = "done"
                /\ outcome' = "error: unexpected"
                /\ UNCHANGED <<inputVars, tickers, pos, results, results_df, group_avg,
                               highlights, avg_error, export, cache, now, metaCalls,
                               priceCalls, lastData, lastLookup>>
           ELSE LET fresh == MetaBody(app, key, resp)
                    meta == CachedValue(cache, key, now, fresh)
                    returns == ReturnsOf(timeframes, data)
                IN  /\ cache' = CacheAfter(cache, key, now, fresh)
                    /\ lastLookup' =
                          [k \in DOMAIN lastLookup \cup {key} |->
                              IF k = key
                              THEN LookupRecord(LookupOf(lastLookup, key), key, cache, now, fresh)
                              ELSE lastLookup[k]]
                    /\ metaCalls' = metaCalls \cup {pos}
                    /\ priceCalls' = priceCalls \cup {<<pos, w>> : w \in Range(timeframes)}
                    /\ lastData' = data
                    /\ results' = IF DOMAIN returns # {}
                                  THEN Append(results, Row(inst, app, meta, returns))
                                  ELSE results
                    /\ pos' = pos + 1
                    /\ UNCHANGED <<inputVars, pc, tickers, results_df, group_avg, highlights,
                                   avg_error, export, outcome, now>>

SheetNames == {"Stock Performance", "Averages"}

ExportSheetsNeedsAverages(avg) ==
    IF avg.present /\ avg.rows # <<>> THEN SheetNames ELSE {}

\* sector_performance.py 219-232, sector_performance1.py 207-219: the download
\* is written outside the averages block; the averages sheet is added when
\* sector_avg / style_avg was assigned
ExportSheets(avg) ==
    {"Stock Performance"} \cup (IF avg.present THEN {"Averages"} ELSE {})

\* the loop is over: sector_performance.py 107-234, sector_performance1.py 107-221
Finish ==
    /\ pc = "loop"
    /\ pos > Len(tickers)
    /\ pc' = "done"
    /\ IF results = <<>>
       THEN /\ outcome' = "error: no valid data"
            /\ UNCHANGED <<results_df, group_avg, highlights, avg_error, export>>
       ELSE LET avg == GroupAverages(timeframes, results)
            IN  /\ outcome' = "analysis complete"
                /\ results_df' = Table(results)
                /\ group_avg' = avg
                /\ highlights' = Highlights(avg)
                /\ avg_error' = AveragesRaise(avg)
                /\ export' = ExportSheets(avg)
    /\ UNCHANGED <<inputVars, tickers, pos, results, cache, now, metaCalls, priceCalls,
                   lastData, lastLookup>>

\* time passes
Tick(limit) ==
    /\ now < limit
    /\ now' = now + 1
    /\ UNCHANGED <<inputVars, pc, tickers, pos, results, results_df, group_avg, highlights,
                   avg_error, export, outcome, cache, metaCalls, priceCalls, lastData,
                   lastLookup>>

-----------------------------------------------------------------------------
(* Inputs: what the user can put in the sidebar, and what the provider can *)
(* answer.                                                                 *)

MaxRows == 2      \* rows of an uploaded table, lines / entries of a text
MaxTime == 3      \* last clock value

W5 == "5 Days"
W20 == "20 Days"

\* the multiselect options: sector_performance.py 39, sector_performance1.py 39
TimeframeOptions(a) ==
    IF a = "sector" THEN <<"5 Days", "10 Days", "15 Days", "20 Days">>
    ELSE <<"5 Days", "10 Days", "15 Days", "20 Days", "3 Months">>

sa == <<"a">>
sb == <<"b">>
sBogus == <<"B","o","g","u","s">>
sgrowth == <<"g","R","O","W","T","H">>
svalue == <<" ","v","A","L","U","E"," ">>
sCode == <<"C","o","d","e">>
sTickerSymbol == <<"T","i","c","k","e","r"," ","S","y","m","b","o","l">>
sName == <<"N","a","m","e">>
sTech == <<"T","e","c","h">>
sSoftware == <<"S","o","f","t","w","a","r","e">>
sAcme == <<"A","c","m","e">>

Join(a, sep, b) == a \o <<sep>> \o b

RECURSIVE Joined(_, _, _)
\* the texts made of exactly n pieces with a separator between neighbours
Joined(pieces, seps, n) ==
    IF n = 1 THEN pieces
    ELSE {Join(t, sep, e) : t \in Joined(pieces, seps, n - 1), sep \in seps, e \in pieces}

TextsUpTo(pieces, seps, n) == {<<>>} \cup UNION {Joined(pieces, seps, k) : k \in 1..n}

RECURSIVE SeqsUpTo(_, _)
\* the sequences over S of length at most n
SeqsUpTo(S, n) ==
    IF n = 0 THEN {<<>>}
    ELSE SeqsUpTo(S, n - 1)
         \cup {Append(q, x) : q \in {r \in SeqsUpTo(S, n - 1) : Len(r) = n - 1}, x \in S}

Request(a, option, file, text, tfs) ==
    [app |-> a, option |-> option, file |-> file, text |-> text, tfs |-> tfs]

File(columns, rows) == [present |-> TRUE, columns |-> columns, rows |-> rows]

\* entries of a sector text, lines of a style text
SectorEntries == {<<>>, sa, <<" ", "A", " ">>, sb, <<" ">>}
StyleLines ==
    {Join(sym, ",", lab) : sym \in {<<>>, sa, <<" ", "b">>},
                           lab \in {sGrowth, svalue, sBogus}}
    \cup {sa, Join(Join(sa, ",", sGrowth), ",", sValue)}

SymbolCells == {NaN, StrCell(sa), StrCell(<<" ", "a">>), StrCell(<<" ">>)}
StyleCells == {NaN, StrCell(sGrowth), StrCell(sgrowth), StrCell(sBogus), NumCell(<<"1">>)}
Headers == {<<sSymbol, sStyle>>, <<sCode, sStyle>>, <<sName, sTickerSymbol>>}

Files ==
    {File(h, rows) : h \in Headers,
                     rows \in SeqsUpTo({<<x, y>> : x \in SymbolCells, y \in StyleCells}, MaxRows)}

\* the requests the resolver is checked on
ResolverRequests ==
    {Request("sector", "Manual", NoFile, t, <<W5>>) :
        t \in TextsUpTo(SectorEntries, {",", "\n"}, MaxRows)}
    \cup {Request("style", "Manual", NoFile, t, <<W5>>) :
        t \in TextsUpTo(StyleLines, {"\n"}, MaxRows)}
    \cup {Request(a, "Upload", f, <<>>, <<W5>>) : a \in {"sector", "style"}, f \in Files}
    \cup {Request(a, "Upload", NoFile, <<>>, <<W5>>) : a \in {"sector", "style"}}

StyleFile(rows) == File(<<sSymbol, sStyle>>, rows)

\* the requests the whole analysis is checked on
PipelineRequests ==
    { Request("sector", "Manual", NoFile, Join(sa, ",", sb), <<W5, W20>>),
      Request("sector", "Manual", NoFile, Join(sa, ",", sa), <<W20, W5>>),
      Request("sector", "Manual", NoFile, Join(Join(sb, "\n", sa), "\n", sb), <<W5, W20>>),
      Request("sector", "Manual", NoFile, <<>>, <<W5>>),
      Request("sector", "Manual", NoFile, sa, <<>>),
      Request("sector", "Manual", NoFile, <<" ", ",", " ">>, <<W5>>),
      Request("sector", "Upload", NoFile, <<>>, <<W5>>),
      Request("sector", "Upload",
              File(<<sName, sTickerSymbol>>,
                   <<<<StrCell(sAcme), StrCell(sa)>>, <<NaN, StrCell(<<" ", "a">>)>>,
                     <<NaN, StrCell(<<"A">>)>>>>),
              <<>>, <<W5>>),
      Request("style", "Manual", NoFile,
              Join(Join(sa, ",", sGrowth), "\n", Join(sb, ",", svalue)), <<W5, W20>>),
      Request("style", "Manual", NoFile,
              Join(Join(sa, ",", sGrowth), "\n", Join(sa, ",", sValue)), <<W5>>),
      Request("style", "Manual", NoFile, Join(<<>>, ",", sGrowth), <<W5>>),
      Request("style", "Manual", NoFile, Join(sa, ",", sBogus), <<W5>>),
      Request("style", "Manual", NoFile, Join(sa, ",", sGrowth), <<>>),
      Request("style", "Upload",
              StyleFile(<<<<StrCell(sa), StrCell(sGrowth)>>, <<StrCell(sb), StrCell(sgrowth)>>,
                          <<StrCell(sa), StrCell(sValue)>>>>),
              <<>>, <<W20>>),
      Request("style", "Upload",
              StyleFile(<<<<StrCell(sa), StrCell(sBogus)>>, <<StrCell(sb), StrCell(sGrowth)>>>>),
              <<>>, <<W5>>),
      Request("style", "Upload",
              StyleFile(<<<<StrCell(sa), NumCell(<<"1">>)>>>>), <<>>, <<W5>>),
      Request("style", "Upload",
              StyleFile(<<<<StrCell(<<" ">>), StrCell(sGrowth)>>>>), <<>>, <<W5>>),
      Request("style", "Upload",
              File(<<sCode, sStyle>>, <<<<StrCell(sa), StrCell(sGrowth)>>>>), <<>>, <<W5>>) }

\* the requests the metadata cache is checked on
CacheRequests ==
    { Request("sector", "Manual", NoFile, Join(sa, ",", sb), <<W5>>),
      Request("sector", "Manual", NoFile, Join(sa, ",", sa), <<W5>>),
      Request("style", "Manual", NoFile, Join(sa, ",", sGrowth), <<W5>>) }

\* Ticker(symbol).info: an exception, a full dict, a dict whose sector is None
MetaResponses ==
    { InfoRaises,
      Info(<<<<"sector", StrCell(sTech)>>, <<"industry", StrCell(sSoftware)>>,
             <<"longName", StrCell(sAcme)>>>>),
      Info(<<<<"sector", NaN>>>>) }

\* yf.download(...): an exception, no rows, or the closing prices
PriceResponses ==
    {Raises, Closes(<<>>), Closes(<<0, 2>>), Closes(<<1, 2>>), Closes(<<3, 1>>)}

CachePriceResponses == {Raises, Closes(<<0, 0>>), Closes(<<2, 2>>)}

-----------------------------------------------------------------------------
(* Specifications.                                                         *)

InitWith(requests) ==
    /\ \E r \in requests :
          /\ app = r.app
          /\ upload_option = r.option
          /\ uploaded_file = r.file
          /\ manual_tickers = r.text
          /\ timeframes = r.tfs
    /\ pc = "idle"
    /\ tickers = <<>>
    /\ pos = 1
    /\ results = <<>>
    /\ results_df = NoTable
    /\ group_avg = NoAverages
    /\ highlights = <<>>
    /\ avg_error = FALSE
    /\ export = {}
    /\ outcome = "idle"
    /\ cache = <<>>
    /\ now = 0
    /\ metaCalls = {}
    /\ priceCalls = {}
    /\ lastData = <<>>
    /\ lastLookup = <<>>

Init == InitWith(PipelineRequests)

Iterate ==
    \E resp \in MetaResponses, data \in [Range(timeframes) -> PriceResponses] :
        ProcessInstrument(resp, data)

Next == Analyze \/ Iterate \/ Finish

\* one request to a freshly started program
Spec == Init /\ [][Next]_vars

InitResolver == InitWith(ResolverRequests)

\* the resolver and the validity check alone, on many inputs
SpecResolver == InitResolver /\ [][Analyze]_vars

InitCache == InitWith(CacheRequests)

IterateCache ==
    \E resp \in MetaResponses, data \in [Range(timeframes) -> CachePriceResponses] :
        ProcessInstrument(resp, data)

NextCache == Analyze \/ Reanalyze \/ IterateCache \/ Finish \/ Tick(MaxTime)

\* successive requests to one running program, with time passing
SpecCache == InitCache /\ [][NextCache]_vars

-----------------------------------------------------------------------------
(* Claims.                                                                 *)

\* a loop iteration that got past the progress bar
IterationStep == pc = "loop" /\ pos' = pos + 1

\* C1: the per-instrument result table holds at most one row per distinct
\* symbol, however often the symbol occurs in the input.
C1_OneRowPerSymbol ==
    results_df.present =>
        \A j, k \in 1..Len(results_df.rows) :
            j # k => results_df.rows[j].Ticker # results_df.rows[k].Ticker

\* every requested window of the instrument processed last is missing
AllMissing(data) == \A w \in DOMAIN data : isna(calculate_returns(data[w]))

C2_RowsCarryAReturn ==
    /\ \A k \in 1..Len(results) :
          /\ DOMAIN results[k].returns # {}
          /\ DOMAIN results[k].returns \subseteq Range(timeframes)
          /\ \A w \in DOMAIN results[k].returns : ~isna(results[k].returns[w])
    /\ results_df.present => results_df.rows = results /\ results # <<>>
    /\ (pc = "done" /\ results = <<>>) => ~results_df.present

C2_DropStep ==
    IterationStep =>
        IF AllMissing(lastData') THEN results' = results
        ELSE Len(results') = Len(results) + 1

\* C2: an instrument none of whose requested windows yields a return adds no
\* row; every row carries a non-missing return of a requested window; when
\* every instrument is dropped there is no table.
C2_AllMissingDropped == [](C2_RowsCarryAReturn) /\ [][C2_DropStep]_vars

\* an analysis that dropped one instrument and kept another
C2_Witness ==
    /\ pc = "done"
    /\ results_df.present
    /\ Len(results_df.rows) < Len(tickers)
    /\ AllMissing(lastData)

\* a download whose first closing price is zero
ZeroFirstClose(d) == d.ok /\ Len(d.close) > 0 /\ d.close[1] = 0

\* C3: a price series whose first close is zero leaves no value for that
\* window in the instrument's row.
C3_ZeroFirstCloseIsMissing ==
    [][IterationStep =>
          \A w \in DOMAIN lastData' :
              ZeroFirstClose(lastData'[w]) =>
                  \/ results' = results
                  \/ w \notin DOMAIN results'[Len(results')].returns]_vars


\* the rows of the result table that contribute to cell (g, w)
Contributing(g, w) ==
    {k \in 1..Len(results_df.rows) :
        results_df.rows[k].Group = g /\ w \in DOMAIN results_df.rows[k].returns}

RECURSIVE DenProduct(_, _)
DenProduct(I, w) ==
    IF I = {} THEN 1
    ELSE LET k == CHOOSE x \in I : TRUE
         IN  results_df.rows[k].returns[w].d * DenProduct(I \ {k}, w)

RECURSIVE ScaledSum(_, _, _)
\* the sum over I of the returns for w, times D
ScaledSum(I, w, D) ==
    IF I = {} THEN 0
    ELSE LET k == CHOOSE x \in I : TRUE
             r == results_df.rows[k].returns[w]
         IN  r.n * (D \div r.d) + ScaledSum(I \ {k}, w, D)

\* x is the arithmetic mean of the returns for w of the rows I (I # {})
IsMeanOf(x, I, w) ==
    IF \E k \in I : results_df.rows[k].returns[w].k = "inf" THEN x.k = "inf"
    ELSE /\ x.k = "num"
         /\ x.n * Cardinality(I) * DenProduct(I, w) = x.d * ScaledSum(I, w, DenProduct(I, w))

\* C4: cell (G, W) of the group-average table is the arithmetic mean of the
\* non-missing returns for W among the rows of group G, is missing (never
\* zero) when no row of G has one, and every group of the table has a row.
C4_GroupAverageIsMean ==
    group_avg.present =>
        /\ results_df.present
        /\ \A j, k \in 1..Len(group_avg.rows) :
              j # k => group_avg.rows[j].Group # group_avg.rows[k].Group
        /\ \A a \in Range(group_avg.rows) :
              /\ \E r \in Range(results_df.rows) : r.Group = a.Group
              /\ DOMAIN a.avg = Range(group_avg.cols)
              /\ \A w \in Range(group_avg.cols) :
                    IF Contributing(a.Group, w) = {} THEN isna(a.avg[w])
                    ELSE IsMeanOf(a.avg[w], Contributing(a.Group, w), w)

\* a table with a mean of two different returns and a missing cell
C4_Witness ==
    /\ group_avg.present
    /\ \E a \in Range(group_avg.rows), w \in Range(group_avg.cols) :
          /\ Cardinality(Contributing(a.Group, w)) = 2
          /\ \E j, k \in Contributing(a.Group, w) :
                results_df.rows[j].returns[w] # results_df.rows[k].returns[w]
          /\ a.avg[w].k = "num"
    /\ \E a \in Range(group_avg.rows), w \in Range(group_avg.cols) : isna(a.avg[w])

\* position p of the table holds an extremal average for w, and no earlier
\* position holds the same value
FirstExtremal(p, w, Worse(_, _)) ==
    LET rows == group_avg.rows
    IN  /\ ~isna(rows[p].avg[w])
        /\ \A j \in 1..Len(rows) :
              ~isna(rows[j].avg[w]) =>
                  /\ ~Worse(rows[p].avg[w], rows[j].avg[w])
                  /\ (j < p => rows[j].avg[w] # rows[p].avg[w])

\* C5: the group reported best (worst) for a window has the maximal
\* (minimal) average of that window, and among groups sharing that value it
\* is the first one of the group-average table.
C5_BestWorstExtremalFirst ==
    /\ (group_avg.present /\ ~avg_error /\ group_avg.rows # <<>>) =>
          DOMAIN highlights = Range(group_avg.cols)
    /\ \A w \in DOMAIN highlights :
          /\ w \in Range(group_avg.cols)
          /\ \E p \in 1..Len(group_avg.rows) :
                /\ group_avg.rows[p].Group = highlights[w].best
                /\ FirstExtremal(p, w, LAMBDA x, y : Less(x, y))
          /\ \E p \in 1..Len(group_avg.rows) :
                /\ group_avg.rows[p].Group = highlights[w].worst
                /\ FirstExtremal(p, w, LAMBDA x, y : Less(y, x))

\* two groups share the maximal average of a window, a third value is lower
C5_Witness ==
    \E w \in DOMAIN highlights :
        /\ \E j, k \in 1..Len(group_avg.rows) :
              /\ j < k
              /\ ~isna(group_avg.rows[j].avg[w])
              /\ group_avg.rows[j].avg[w] = group_avg.rows[k].avg[w]
              /\ highlights[w].best = group_avg.rows[j].Group
        /\ \E v \in DOMAIN highlights : highlights[v].best # highlights[v].worst

\* C6: the provider's metadata call is made at most once per symbol within
\* the validity window of its entry; a lookup inside the window returns the
\* stored value (a stored fallback too) without a provider call, and a
\* lookup after expiry calls the provider again.
C6_OneProviderCallPerWindow ==
    \A key \in DOMAIN lastLookup :
        LET h == lastLookup[key]
        IN  /\ h.called => (h.prevCallTime = NoCall \/ h.time - h.prevCallTime >= TTL)
            /\ ~h.called => (h.value = h.callValue /\ h.callTime # NoCall)
            /\ h.called => h.time = h.callTime
            /\ ~h.called => h.time - h.callTime < TTL

\* a stored fallback served from the cache, and a call after an expiry
C6_Witness ==
    /\ \E key \in DOMAIN lastLookup :
          /\ ~lastLookup[key].called
          /\ lastLookup[key].time > lastLookup[key].callTime
          /\ lastLookup[key].value.company = StrCell(key)
    /\ \E key \in DOMAIN lastLookup :
          lastLookup[key].called /\ lastLookup[key].prevCallTime # NoCall

Warnings == {"warning: provide valid symbols", "warning: select a timeframe"}

\* C7: whatever the provider's failures, the request is not aborted and
\* every instrument and every window of it is processed.
C7_RunNeverAborted ==
    /\ outcome # "error: unexpected"
    /\ (pc = "done" /\ outcome \notin Warnings) =>
          /\ metaCalls = 1..Len(tickers)
          /\ priceCalls = {<<p, w>> : p \in 1..Len(tickers), w \in Range(timeframes)}

\* C8: with an empty instrument list or no window selected the request ends
\* with a warning: no provider call, no table, no export.
C8_InvalidInputHalts ==
    (pc # "idle" /\ (tickers = <<>> \/ timeframes = <<>>)) =>
        /\ pc = "done"
        /\ outcome \in Warnings
        /\ metaCalls = {}
        /\ priceCalls = {}
        /\ results = <<>>
        /\ ~results_df.present
        /\ ~group_avg.present
        /\ export = {}

\* instruments were resolved and no window was selected
C8_Witness == pc = "done" /\ tickers # <<>> /\ timeframes = <<>>

\* C9: in style mode every resolved instrument is labelled Growth or Value.
C9_StyleLabelsAccepted ==
    (app = "style" /\ pc # "idle") =>
        \A k \in 1..Len(tickers) : tickers[k].Style \in {StrCell(sGrowth), StrCell(sValue)}

\* C10: every symbol whose data is requested is non-empty, upper-cased and
\* free of leading and trailing whitespace.
C10_SymbolsNormalised ==
    \A p \in metaCalls :
        /\ tickers[p].Symbol # <<>>
        /\ upper(tickers[p].Symbol) = tickers[p].Symbol
        /\ strip(tickers[p].Symbol) = tickers[p].Symbol


C12_ProgressFractionInRange ==
    (app = "style" /\ pc # "idle") =>
        /\ \A k \in 1..Len(tickers) :
              /\ 0 < tickers[k].idx + 1
              /\ tickers[k].idx + 1 <= Len(tickers)
              /\ (k = Len(tickers) => tickers[k].idx + 1 = Len(tickers))
        /\ outcome # "error: unexpected"

=============================================================================
